---- MODULE Spec2Model ----
(***************************************************************************)
(* Sudoku core (src/sudoku/core.py): the constraint checker is_valid, the  *)
(* backtracking solver solve, the random filler _fill_board and the        *)
(* carver generate, modelled as state machines over 9x9 boards.            *)
(***************************************************************************)
EXTENDS Integers, Sequences, FiniteSets, TLC

GRID_SIZE == 9
BOX_SIZE == 3

\* range(GRID_SIZE): the row and column indices of a board
Idx == 0 .. (GRID_SIZE - 1)

\* range(1, GRID_SIZE + 1): the digits the solver tries
Digits == 1 .. GRID_SIZE

\* _all_cells(): every address, row-major
Cells == Idx \X Idx

\* Board = List[List[int]], board[r][c], 0 is a blank
ZeroBoard == [r \in Idx |-> [c \in Idx |-> 0]]

None == <<>>

\* mutant: the scan keeps the last blank it meets
find_empty_Last(board) ==
    LET empties == {k \in 0 .. (GRID_SIZE * GRID_SIZE - 1) :
                        board[k \div GRID_SIZE][k % GRID_SIZE] = 0}
    IN  IF empties = {} THEN None
        ELSE LET k == CHOOSE k \in empties : \A j \in empties : k >= j
             IN  <<k \div GRID_SIZE, k % GRID_SIZE>>

\* mutant: the coordinates are returned as (c, r)
find_empty_Transposed(board) ==
    LET empties == {k \in 0 .. (GRID_SIZE * GRID_SIZE - 1) :
                        board[k \div GRID_SIZE][k % GRID_SIZE] = 0}
    IN  IF empties = {} THEN None
        ELSE LET k == CHOOSE k \in empties : \A j \in empties : k <= j
             IN  <<k % GRID_SIZE, k \div GRID_SIZE>>

(***************************************************************************)
(* _find_empty: the first cell holding 0 in row-major order, or None.      *)
(***************************************************************************)
find_empty(board) ==
    LET empties == {k \in 0 .. (GRID_SIZE * GRID_SIZE - 1) :
                        board[k \div GRID_SIZE][k % GRID_SIZE] = 0}
    IN  IF empties = {} THEN None
        ELSE LET k == CHOOSE k \in empties : \A j \in empties : k <= j
             IN  <<k \div GRID_SIZE, k % GRID_SIZE>>

(***************************************************************************)
(* is_valid: num appears in no other cell of the row, the column, the box. *)
(***************************************************************************)

\* mutant: the row loop does not skip the cell itself
RowClash_CountsSelf(board, row, col, num) ==
    \E c \in Idx : board[row][c] = num

RowClash(board, row, col, num) ==
    \E c \in Idx : c # col /\ board[row][c] = num


\* mutant: the column loop reads board[row][r], as the row loop does
ColClash_ReadsRow(board, row, col, num) ==
    \E r \in Idx : r # row /\ board[row][r] = num

ColClash(board, row, col, num) ==
    \E r \in Idx : r # row /\ board[r][col] = num


\* mutant: the box origin is row // BOX_SIZE, col // BOX_SIZE
BoxClash_WrongOrigin(board, row, col, num) ==
    LET br == row \div BOX_SIZE
        bc == col \div BOX_SIZE
    IN  \E r \in br .. (br + BOX_SIZE - 1) :
            \E c \in bc .. (bc + BOX_SIZE - 1) :
                (r # row \/ c # col) /\ board[r][c] = num

BoxClash(board, row, col, num) ==
    LET br == BOX_SIZE * (row \div BOX_SIZE)
        bc == BOX_SIZE * (col \div BOX_SIZE)
    IN  \E r \in br .. (br + BOX_SIZE - 1) :
            \E c \in bc .. (bc + BOX_SIZE - 1) :
                (r # row \/ c # col) /\ board[r][c] = num

is_valid(board, row, col, num) ==
    /\ ~RowClash(board, row, col, num)
    /\ ~ColClash(board, row, col, num)
    /\ ~BoxClash(board, row, col, num)

(***************************************************************************)
(* State.                                                                  *)
(*   solve_board  the board solve(board) is running on (mutated in place)  *)
(*   board0       that board as it was when the outermost call started     *)
(*   stack        one frame per active solve call that found a blank:      *)
(*                its cell (r, c) and the loop variable num                *)
(*   pc           "call": a solve call is starting; "loop": the top frame  *)
(*                is in its for loop; "return": a call has just returned   *)
(*                ret to its caller; "done": the outermost call returned;  *)
(*                "idle": no solve is running                              *)
(*   ret          the value the last finished call returned                *)
(*   nwrites      the number of cell assignments (lines 52 and 55) the     *)
(*                running solve has made                                   *)
(*   run          0, or the number (1, 2) of the call when a caller makes  *)
(*                two calls of solve on identical grids                    *)
(*   wlog         while run > 0: the assignments of the running call in    *)
(*                order, each <<r, c, value>>                              *)
(*   first        the return value, final board and assignments of call 1  *)
(***************************************************************************)
VARIABLES solve_board, board0, stack, pc, ret, nwrites, run, wlog, first

(***************************************************************************)
(* State of generate(difficulty).                                          *)
(*   gpc         where generate is: "start", the filler's "fill_call",     *)
(*               "fill_loop", "fill_return", then "shuffle", "carve",      *)
(*               "probe" (solve runs on the copy), "returned", "raised",   *)
(*               "test" (the caller runs solve on a copy of the result);   *)
(*               "idle" when generate is not running                       *)
(*   difficulty  the argument                                              *)
(*   removals    difficulty_map[difficulty]                                *)
(*   error       the exception raised, or None                             *)
(*   board       the live grid                                             *)
(*   fstack      one frame per active _fill_board call that found a blank: *)
(*               its cell, its shuffled nums and the index reached in them *)
(*   fret        the value the last finished _fill_board call returned     *)
(*   cells       the address list; idx the position of the loop running    *)
(*               over it (the i of random.shuffle while gpc = "shuffle",   *)
(*               the address the carving loop is at afterwards); removed   *)
(*               the carving loop's count, backup the value it saved       *)
(*   rng         the state of the random source                            *)
(*   filled      the live grid as it was when _fill_board returned, None   *)
(*               before                                                    *)
(***************************************************************************)
VARIABLES gpc, difficulty, removals, error, board, fstack, fret,
          cells, idx, removed, backup, rng, filled

(***************************************************************************)
(* A call is_valid(board, row, col, num) made by a caller on solve_board:  *)
(*   query   its arguments [row, col, num], or None before the first call  *)
(*   answer  the value it returned                                         *)
(***************************************************************************)
VARIABLES query, answer

(***************************************************************************)
(* The desktop front end (src/sudoku/gui_modern).                          *)
(*   session  a SessionTracker driven directly by a client, a record of    *)
(*            its attributes; None when no tracker has been constructed    *)
(*   call     the last method the client called on it and the value that   *)
(*            returned, [op, ret]; in a window, the last handler that ran  *)
(*   win      a SudokuMainWindow with the objects it owns (its own         *)
(*            SessionTracker, the board widget, the virtual keyboard, the  *)
(*            leaderboard); None when no window has been constructed       *)
(*   revealed TRUE from the solve_board that put a solution on the board   *)
(*            until the next puzzle is loaded                              *)
(***************************************************************************)
VARIABLES session, call, win, revealed

solve_vars == <<solve_board, board0, stack, pc, ret, nwrites, run, wlog, first>>
gen_vars == <<gpc, difficulty, removals, error, board, fstack, fret,
              cells, idx, removed, backup, rng, filled>>
valid_vars == <<query, answer>>
gui_vars == <<session, call, win, revealed>>
vars == <<solve_vars, gen_vars, valid_vars, gui_vars>>

\* what no step of solve touches, and what no step of generate touches
solve_frame == <<gen_vars, valid_vars, gui_vars>>
gen_frame == <<valid_vars, gui_vars>>

Top == stack[Len(stack)]
Pop == SubSeq(stack, 1, Len(stack) - 1)

\* mutant: line 51 is missing, every digit of the range is accepted
ValidAfter_Unchecked(b, r, c, num) ==
    {n \in Digits : n > num}

\* for num in range(1, GRID_SIZE + 1): if is_valid(board, r, c, num): the
\* digits after `num` the loop body would still accept on `board`
ValidAfter(b, r, c, num) ==
    {n \in Digits : n > num /\ is_valid(b, r, c, n)}

Least(S) == CHOOSE n \in S : \A m \in S : n <= m


\* the assignments so far, with board[r][c] = v added when they are recorded
Logged(r, c, v) == IF run > 0 THEN Append(wlog, <<r, c, v>>) ELSE wlog

\* mutant: line 48 returns False
SolveCall_ReturnsFalse ==
    /\ pc = "call"
    /\ LET empty == find_empty(solve_board)
       IN  IF empty = None
           THEN /\ ret' = FALSE
                /\ pc' = "return"
                /\ stack' = stack
           ELSE /\ stack' = Append(stack, [r |-> empty[1], c |-> empty[2], num |-> 0])
                /\ pc' = "loop"
                /\ ret' = ret
    /\ UNCHANGED <<solve_board, board0, nwrites, run, wlog, first>>
    /\ UNCHANGED solve_frame


\* mutant: a board with no blank is checked again, and reported solved only
\* when every cell passes is_valid
SolveCall_Revalidates ==
    /\ pc = "call"
    /\ LET empty == find_empty(solve_board)
       IN  IF empty = None
           THEN /\ ret' = \A r \in Idx : \A c \in Idx :
                            is_valid(solve_board, r, c, solve_board[r][c])
                /\ pc' = "return"
                /\ stack' = stack
           ELSE /\ stack' = Append(stack, [r |-> empty[1], c |-> empty[2], num |-> 0])
                /\ pc' = "loop"
                /\ ret' = ret
    /\ UNCHANGED <<solve_board, board0, nwrites, run, wlog, first>>
    /\ UNCHANGED solve_frame

\* solve, lines 46-49: no blank, return True; else enter the loop at (r, c)
SolveCall ==
    /\ pc = "call"
    /\ LET empty == find_empty(solve_board)
       IN  IF empty = None
           THEN /\ ret' = TRUE
                /\ pc' = "return"
                /\ stack' = stack
           ELSE /\ stack' = Append(stack, [r |-> empty[1], c |-> empty[2], num |-> 0])
                /\ pc' = "loop"
                /\ ret' = ret
    /\ UNCHANGED <<solve_board, board0, nwrites, run, wlog, first>>
    /\ UNCHANGED solve_frame


\* mutant: the digits are tried in an order the call picks (as the shuffled
\* nums of _fill_board), not ascending
SolvePlace_AnyOrder ==
    /\ pc = "loop"
    /\ LET f == Top
           S == {n \in Digits : is_valid(solve_board, f.r, f.c, n)}
       IN  \E n \in S :
            /\ solve_board' = [solve_board EXCEPT ![f.r][f.c] = n]
            /\ stack' = [stack EXCEPT ![Len(stack)].num = n]
            /\ wlog' = Logged(f.r, f.c, n)
    /\ pc' = "call"
    /\ nwrites' = nwrites + 1
    /\ UNCHANGED <<board0, ret, run, first>>
    /\ UNCHANGED solve_frame

\* mutant: line 52 is missing, solve is called on the board as it is
SolvePlace_NoWrite ==
    /\ pc = "loop"
    /\ LET f == Top
           S == ValidAfter(solve_board, f.r, f.c, f.num)
       IN  /\ S # {}
           /\ stack' = [stack EXCEPT ![Len(stack)].num = Least(S)]
    /\ pc' = "call"
    /\ UNCHANGED <<solve_board, board0, ret, nwrites, run, wlog, first>>
    /\ UNCHANGED solve_frame

\* mutant: the loop runs over the digits downwards, 9 first
SolvePlace_Descending ==
    /\ pc = "loop"
    /\ LET f == Top
           S == {n \in Digits : (f.num = 0 \/ n < f.num)
                                /\ is_valid(solve_board, f.r, f.c, n)}
           n == CHOOSE n \in S : \A m \in S : n >= m
       IN  /\ S # {}
           /\ solve_board' = [solve_board EXCEPT ![f.r][f.c] = n]
           /\ stack' = [stack EXCEPT ![Len(stack)].num = n]
           /\ wlog' = Logged(f.r, f.c, n)
    /\ pc' = "call"
    /\ nwrites' = nwrites + 1
    /\ UNCHANGED <<board0, ret, run, first>>
    /\ UNCHANGED solve_frame

\* solve, lines 50-53: the next digit that passes is_valid is written and
\* solve is called on the board
SolvePlace ==
    /\ pc = "loop"
    /\ LET f == Top
           S == ValidAfter(solve_board, f.r, f.c, f.num)
       IN  /\ S # {}
           /\ solve_board' = [solve_board EXCEPT ![f.r][f.c] = Least(S)]
           /\ stack' = [stack EXCEPT ![Len(stack)].num = Least(S)]
           /\ wlog' = Logged(f.r, f.c, Least(S))
    /\ pc' = "call"
    /\ nwrites' = nwrites + 1
    /\ UNCHANGED <<board0, ret, run, first>>
    /\ UNCHANGED solve_frame

\* mutant: line 56 is never reached, the call that ran out of digits spins
SolveExhausted_Spins ==
    /\ pc = "loop"
    /\ ValidAfter(solve_board, Top.r, Top.c, Top.num) = {}
    /\ UNCHANGED solve_vars
    /\ UNCHANGED solve_frame

\* solve, line 56: the loop ran out of digits, return False
SolveExhausted ==
    /\ pc = "loop"
    /\ ValidAfter(solve_board, Top.r, Top.c, Top.num) = {}
    /\ stack' = Pop
    /\ ret' = FALSE
    /\ pc' = "return"
    /\ UNCHANGED <<solve_board, board0, nwrites, run, wlog, first>>
    /\ UNCHANGED solve_frame


\* mutant: the cell is reset before the nested call's result is returned
SolveReturnTrue_Resets ==
    /\ pc = "return"
    /\ stack # <<>>
    /\ ret = TRUE
    /\ solve_board' = [solve_board EXCEPT ![Top.r][Top.c] = 0]
    /\ stack' = Pop
    /\ UNCHANGED <<board0, pc, ret, nwrites, run, wlog, first>>
    /\ UNCHANGED solve_frame

\* solve, lines 53-54: the nested call returned True, so does this one
SolveReturnTrue ==
    /\ pc = "return"
    /\ stack # <<>>
    /\ ret = TRUE
    /\ stack' = Pop
    /\ UNCHANGED <<solve_board, board0, pc, ret, nwrites, run, wlog, first>>
    /\ UNCHANGED solve_frame

\* mutant: line 55 is missing, the cell keeps the digit that failed
SolveUndo_NoReset ==
    /\ pc = "return"
    /\ stack # <<>>
    /\ ret = FALSE
    /\ pc' = "loop"
    /\ nwrites' = nwrites
    /\ UNCHANGED <<solve_board, board0, stack, ret, run, wlog, first>>
    /\ UNCHANGED solve_frame

\* mutant: line 55 resets board[c][r]
SolveUndo_Transposed ==
    /\ pc = "return"
    /\ stack # <<>>
    /\ ret = FALSE
    /\ solve_board' = [solve_board EXCEPT ![Top.c][Top.r] = 0]
    /\ wlog' = Logged(Top.c, Top.r, 0)
    /\ pc' = "loop"
    /\ nwrites' = nwrites + 1
    /\ UNCHANGED <<board0, stack, ret, run, first>>
    /\ UNCHANGED solve_frame

\* solve, lines 53-55: the nested call returned False, reset the cell and
\* go on with the loop
SolveUndo ==
    /\ pc = "return"
    /\ stack # <<>>
    /\ ret = FALSE
    /\ solve_board' = [solve_board EXCEPT ![Top.r][Top.c] = 0]
    /\ wlog' = Logged(Top.r, Top.c, 0)
    /\ pc' = "loop"
    /\ nwrites' = nwrites + 1
    /\ UNCHANGED <<board0, stack, ret, run, first>>
    /\ UNCHANGED solve_frame

\* the outermost call has returned to the caller of solve
SolveFinish ==
    /\ pc = "return"
    /\ stack = <<>>
    /\ pc' = "done"
    /\ UNCHANGED <<solve_board, board0, stack, ret, nwrites, run, wlog, first>>
    /\ UNCHANGED solve_frame

SolveNext ==
    \/ SolveCall
    \/ SolvePlace
    \/ SolveExhausted
    \/ SolveReturnTrue
    \/ SolveUndo
    \/ SolveFinish

\* no tracker and no window has been constructed
GuiIdle == session = None /\ call = None /\ win = None /\ revealed = FALSE

\* no is_valid query is made
ValidIdle == query = None /\ answer = FALSE

\* generate is not running
GenIdle ==
    /\ gpc = "idle"
    /\ difficulty = ""
    /\ removals = 0
    /\ error = None
    /\ board = ZeroBoard
    /\ fstack = <<>>
    /\ fret = FALSE
    /\ cells = <<>>
    /\ idx = 0
    /\ removed = 0
    /\ backup = 0
    /\ rng = 0
    /\ filled = None

\* a caller starts solve(g)
SolveStart(g) ==
    /\ solve_board = g
    /\ board0 = g
    /\ stack = <<>>
    /\ pc = "call"
    /\ ret = FALSE
    /\ nwrites = 0
    /\ wlog = <<>>
    /\ first = None

(***************************************************************************)
(* solve on the all-blank board.                                           *)
(***************************************************************************)
InitBlank == SolveStart(ZeroBoard) /\ run = 0 /\ GenIdle /\ ValidIdle /\ GuiIdle

SpecBlank == InitBlank /\ [][SolveNext]_vars

(***************************************************************************)
(* solve on the boards of a bounded family: a complete valid grid with the *)
(* cells of a subset of a pool blanked and at most one further pool cell   *)
(* overwritten by any digit.  The family holds complete boards with        *)
(* duplicates, duplicate-free boards with and without a completion, and    *)
(* boards with several completions.                                        *)
(***************************************************************************)
SolvedRows ==
    << <<1, 2, 3, 4, 5, 6, 7, 8, 9>>,
       <<4, 5, 6, 7, 8, 9, 1, 2, 3>>,
       <<7, 8, 9, 1, 2, 3, 4, 5, 6>>,
       <<2, 1, 4, 3, 6, 5, 8, 9, 7>>,
       <<3, 6, 5, 8, 9, 7, 2, 1, 4>>,
       <<8, 9, 7, 2, 1, 4, 3, 6, 5>>,
       <<5, 3, 1, 6, 4, 2, 9, 7, 8>>,
       <<6, 4, 2, 9, 7, 8, 5, 3, 1>>,
       <<9, 7, 8, 5, 3, 1, 6, 4, 2>> >>

Solved == [r \in Idx |-> [c \in Idx |-> SolvedRows[r + 1][c + 1]]]

PoolCells ==
    << <<0, 0>>, <<0, 1>>, <<3, 0>>, <<3, 1>>, <<0, 3>>, <<1, 0>>, <<1, 3>>, <<4, 4>> >>

PoolSize == 6

Pool == {PoolCells[i] : i \in 1 .. PoolSize}

\* the grid g with the cells of B blanked
Blanked(g, B) ==
    [r \in Idx |-> [c \in Idx |-> IF <<r, c>> \in B THEN 0 ELSE g[r][c]]]

SolveInputs ==
    {Blanked(Solved, B) : B \in SUBSET Pool}
    \cup {[Blanked(Solved, B) EXCEPT ![t[1]][t[2]] = v] :
            B \in SUBSET Pool, t \in Pool, v \in Digits}

InitSolve == (\E g \in SolveInputs : SolveStart(g)) /\ run = 0 /\ GenIdle /\ ValidIdle /\ GuiIdle

SpecSolve == InitSolve /\ [][SolveNext]_vars

(***************************************************************************)
(* Two calls of solve on identical grids: when the first has returned, the *)
(* caller keeps what it did and calls solve again on the grid as it was.   *)
(***************************************************************************)
SolveAgain ==
    /\ run = 1
    /\ pc = "done"
    /\ first' = [ret |-> ret, board |-> solve_board, wlog |-> wlog]
    /\ solve_board' = board0
    /\ stack' = <<>>
    /\ pc' = "call"
    /\ ret' = FALSE
    /\ nwrites' = 0
    /\ wlog' = <<>>
    /\ run' = 2
    /\ UNCHANGED board0
    /\ UNCHANGED solve_frame

TwinNext ==
    \/ SolveNext
    \/ SolveAgain

InitTwin ==
    /\ \E g \in SolveInputs \cup {ZeroBoard} : SolveStart(g)
    /\ run = 1
    /\ GenIdle
    /\ ValidIdle
    /\ GuiIdle

SpecTwin == InitTwin /\ [][TwinNext]_vars

(***************************************************************************)
(* A caller asks is_valid(board, row, col, num) once, on a board of a      *)
(* bounded family: the complete grid with pool cells blanked or            *)
(* overwritten, and the boards that are blank but for two cells of row 0   *)
(* holding the same digit.                                                 *)
(***************************************************************************)
AskPoolSize == 2
MaxCol == 3

AskPool == {PoolCells[i] : i \in 1 .. AskPoolSize}

TwoInRow(a, b, v) == [ZeroBoard EXCEPT ![0] = [@ EXCEPT ![a] = v, ![b] = v]]

AskInputs ==
    {Blanked(Solved, B) : B \in SUBSET AskPool}
    \cup {[Blanked(Solved, B) EXCEPT ![t[1]][t[2]] = v] :
            B \in SUBSET AskPool, t \in AskPool, v \in Digits}
    \cup {TwoInRow(ab[1], ab[2], v) :
            ab \in {x \in (0 .. MaxCol) \X (0 .. MaxCol) : x[1] < x[2]}, v \in Digits}

\* mutant: a digit that passes is left in the cell
Ask_Places ==
    /\ query = None
    /\ \E row \in Idx, col \in Idx, num \in Digits :
        /\ query' = [row |-> row, col |-> col, num |-> num]
        /\ answer' = is_valid(solve_board, row, col, num)
        /\ solve_board' = IF answer' THEN [solve_board EXCEPT ![row][col] = num]
                                     ELSE solve_board
    /\ UNCHANGED <<board0, stack, pc, ret, nwrites, run, wlog, first>>
    /\ UNCHANGED <<gen_vars, gui_vars>>

\* is_valid, lines 25-41: the three loops read the board and return
Ask ==
    /\ query = None
    /\ \E row \in Idx, col \in Idx, num \in Digits :
        /\ query' = [row |-> row, col |-> col, num |-> num]
        /\ answer' = is_valid(solve_board, row, col, num)
    /\ UNCHANGED <<solve_vars, gen_vars, gui_vars>>

ValidNext == Ask

InitValid ==
    /\ solve_board \in AskInputs
    /\ board0 = solve_board
    /\ stack = <<>>
    /\ pc = "idle"
    /\ ret = FALSE
    /\ nwrites = 0
    /\ run = 0
    /\ wlog = <<>>
    /\ first = None
    /\ GenIdle
    /\ ValidIdle
    /\ GuiIdle

SpecValid == InitValid /\ [][ValidNext]_vars

(***************************************************************************)
(* The random source.  random.shuffle is Fisher-Yates over draws of the    *)
(* process-wide generator; the generator is a 16-bit linear congruential   *)
(* one here, and the seed is the input that selects the shuffles of a run. *)
(***************************************************************************)
rng_next(s) == (25173 * s + 13849) % 65536

\* randbelow(n) on state s (the state after the draw is rng_next(s))
randbelow(s, n) == (rng_next(s) \div 256) % n

Swap(x, i, j) == [x EXCEPT ![i] = x[j], ![j] = x[i]]

\* one round of random.shuffle's loop, for i in reversed(range(1, len(x))):
\* j = randbelow(i + 1); x[i], x[j] = x[j], x[i]
\* (x is 1-based here: positions i + 1 and j + 1)
shuffle_round(x, i, s) ==
    [seq |-> Swap(x, i + 1, randbelow(s, i + 1) + 1), rng |-> rng_next(s)]

RECURSIVE shuffle_from(_, _, _)
shuffle_from(x, i, s) ==
    IF i < 1 THEN [seq |-> x, rng |-> s]
    ELSE CHOOSE res \in {shuffle_from(sh.seq, i - 1, sh.rng) :
                            sh \in {shuffle_round(x, i, s)}} : TRUE

shuffle(x, s) == shuffle_from(x, Len(x) - 1, s)

(***************************************************************************)
(* generate.                                                               *)
(***************************************************************************)
difficulty_map == [easy |-> 36, medium |-> 46, hard |-> 54]

\* tuple(difficulty_map)
ValidSet == <<"easy", "medium", "hard">>

\* list(range(1, GRID_SIZE + 1))
nums_list == [i \in 1 .. GRID_SIZE |-> i]

\* list(_all_cells())
all_cells ==
    [k \in 1 .. (GRID_SIZE * GRID_SIZE) |->
        <<(k - 1) \div GRID_SIZE, (k - 1) % GRID_SIZE>>]

FTop == fstack[Len(fstack)]
FPop == SubSeq(fstack, 1, Len(fstack) - 1)

\* generate, lines 90-91 and 95: the lookup succeeds, the board is created
GenLookup ==
    /\ gpc = "start"
    /\ difficulty \in DOMAIN difficulty_map
    /\ removals' = difficulty_map[difficulty]
    /\ board' = ZeroBoard
    /\ gpc' = "fill_call"
    /\ UNCHANGED <<difficulty, error, fstack, fret, cells, idx, removed, backup, rng>>
    /\ UNCHANGED solve_vars
    /\ UNCHANGED filled
    /\ UNCHANGED gen_frame


\* mutant: an unknown difficulty falls back to the default, "easy"
GenRaise_DefaultsToEasy ==
    /\ gpc = "start"
    /\ difficulty \notin DOMAIN difficulty_map
    /\ removals' = difficulty_map["easy"]
    /\ board' = ZeroBoard
    /\ gpc' = "fill_call"
    /\ UNCHANGED <<difficulty, error, fstack, fret, cells, idx, removed, backup, rng>>
    /\ UNCHANGED solve_vars
    /\ UNCHANGED filled
    /\ UNCHANGED gen_frame

\* mutant: the lookup is made after the board was created and the filler
\* was started: a shuffle has been drawn and a cell written when it fails
GenRaise_Late ==
    /\ gpc = "start"
    /\ difficulty \notin DOMAIN difficulty_map
    /\ error' = [type |-> "ValueError", value |-> difficulty, expected |-> ValidSet]
    /\ gpc' = "raised"
    /\ LET sh == shuffle(nums_list, rng)
       IN  /\ rng' = sh.rng
           /\ board' = [ZeroBoard EXCEPT ![0][0] = sh.seq[1]]
    /\ UNCHANGED <<difficulty, removals, fstack, fret, cells, idx, removed, backup>>
    /\ UNCHANGED solve_vars
    /\ UNCHANGED filled
    /\ UNCHANGED gen_frame

\* generate, lines 92-93: KeyError, re-raised as ValueError
GenRaise ==
    /\ gpc = "start"
    /\ difficulty \notin DOMAIN difficulty_map
    /\ error' = [type |-> "ValueError", value |-> difficulty, expected |-> ValidSet]
    /\ gpc' = "raised"
    /\ UNCHANGED <<difficulty, removals, board, fstack, fret, cells, idx, removed,
                   backup, rng>>
    /\ UNCHANGED solve_vars
    /\ UNCHANGED filled
    /\ UNCHANGED gen_frame

\* _fill_board, lines 61-66: no blank, return True; else shuffle nums
FillCall ==
    /\ gpc = "fill_call"
    /\ LET empty == find_empty(board)
           sh == shuffle(nums_list, rng)
       IN  IF empty = None
           THEN /\ fret' = TRUE
                /\ gpc' = "fill_return"
                /\ UNCHANGED <<fstack, rng>>
           ELSE /\ fstack' = Append(fstack,
                        [r |-> empty[1], c |-> empty[2], nums |-> sh.seq, i |-> 0])
                /\ rng' = sh.rng
                /\ gpc' = "fill_loop"
                /\ fret' = fret
    /\ UNCHANGED <<difficulty, removals, error, board, cells, idx, removed, backup>>
    /\ UNCHANGED solve_vars
    /\ UNCHANGED filled
    /\ UNCHANGED gen_frame

\* mutant: line 68 is missing, every digit of nums is accepted
FillValidAfter_Unchecked(b, f) ==
    {j \in 1 .. Len(f.nums) : j > f.i}

\* the positions after i of nums whose digit passes is_valid on the board
FillValidAfter(b, f) ==
    {j \in 1 .. Len(f.nums) : j > f.i /\ is_valid(b, f.r, f.c, f.nums[j])}

\* _fill_board, lines 67-70
FillPlace ==
    /\ gpc = "fill_loop"
    /\ LET f == FTop
           S == FillValidAfter(board, f)
       IN  /\ S # {}
           /\ board' = [board EXCEPT ![f.r][f.c] = f.nums[Least(S)]]
           /\ fstack' = [fstack EXCEPT ![Len(fstack)].i = Least(S)]
    /\ gpc' = "fill_call"
    /\ UNCHANGED <<difficulty, removals, error, fret, cells, idx, removed, backup, rng>>
    /\ UNCHANGED solve_vars
    /\ UNCHANGED filled
    /\ UNCHANGED gen_frame

\* _fill_board, line 73
FillExhausted ==
    /\ gpc = "fill_loop"
    /\ FillValidAfter(board, FTop) = {}
    /\ fstack' = FPop
    /\ fret' = FALSE
    /\ gpc' = "fill_return"
    /\ UNCHANGED <<difficulty, removals, error, board, cells, idx, removed, backup, rng>>
    /\ UNCHANGED solve_vars
    /\ UNCHANGED filled
    /\ UNCHANGED gen_frame

\* mutant: the cell is reset before True is returned
FillReturnTrue_Resets ==
    /\ gpc = "fill_return"
    /\ fstack # <<>>
    /\ fret = TRUE
    /\ board' = [board EXCEPT ![FTop.r][FTop.c] = 0]
    /\ fstack' = FPop
    /\ UNCHANGED <<gpc, difficulty, removals, error, fret, cells, idx, removed,
                   backup, rng>>
    /\ UNCHANGED solve_vars
    /\ UNCHANGED filled
    /\ UNCHANGED gen_frame

\* _fill_board, lines 70-71
FillReturnTrue ==
    /\ gpc = "fill_return"
    /\ fstack # <<>>
    /\ fret = TRUE
    /\ fstack' = FPop
    /\ UNCHANGED <<gpc, difficulty, removals, error, board, fret, cells, idx, removed,
                   backup, rng>>
    /\ UNCHANGED solve_vars
    /\ UNCHANGED filled
    /\ UNCHANGED gen_frame

\* mutant: line 72 is missing, the cell keeps the digit that failed
FillUndo_NoReset ==
    /\ gpc = "fill_return"
    /\ fstack # <<>>
    /\ fret = FALSE
    /\ gpc' = "fill_loop"
    /\ UNCHANGED <<difficulty, removals, error, board, fstack, fret, cells, idx,
                   removed, backup, rng>>
    /\ UNCHANGED solve_vars
    /\ UNCHANGED filled
    /\ UNCHANGED gen_frame

\* _fill_board, lines 70-72
FillUndo ==
    /\ gpc = "fill_return"
    /\ fstack # <<>>
    /\ fret = FALSE
    /\ board' = [board EXCEPT ![FTop.r][FTop.c] = 0]
    /\ gpc' = "fill_loop"
    /\ UNCHANGED <<difficulty, removals, error, fstack, fret, cells, idx, removed,
                   backup, rng>>
    /\ UNCHANGED solve_vars
    /\ UNCHANGED filled
    /\ UNCHANGED gen_frame

\* generate, lines 96-98: _fill_board has returned (its value is dropped);
\* the address list is built
GenCells ==
    /\ gpc = "fill_return"
    /\ fstack = <<>>
    /\ cells' = all_cells
    /\ idx' = Len(all_cells) - 1
    /\ gpc' = "shuffle"
    /\ filled' = board
    /\ UNCHANGED <<difficulty, removals, error, board, fstack, fret, removed, backup,
                   rng>>
    /\ UNCHANGED solve_vars
    /\ UNCHANGED gen_frame

\* generate, line 99: one round of random.shuffle(cells), idx being its i
ShuffleRound ==
    /\ gpc = "shuffle"
    /\ idx >= 1
    /\ LET sh == shuffle_round(cells, idx, rng)
       IN  /\ cells' = sh.seq
           /\ rng' = sh.rng
    /\ idx' = idx - 1
    /\ UNCHANGED <<gpc, difficulty, removals, error, board, fstack, fret, removed,
                   backup>>
    /\ UNCHANGED solve_vars
    /\ UNCHANGED filled
    /\ UNCHANGED gen_frame

\* generate, lines 100-101: the shuffle is over, the carving loop starts
CarveStart ==
    /\ gpc = "shuffle"
    /\ idx < 1
    /\ removed' = 0
    /\ idx' = 1
    /\ gpc' = "carve"
    /\ UNCHANGED <<difficulty, removals, error, board, fstack, fret, cells, backup,
                   rng>>
    /\ UNCHANGED solve_vars
    /\ UNCHANGED filled
    /\ UNCHANGED gen_frame

\* mutant: line 102 tests removed > removals
CarveOver_OffByOne == idx > Len(cells) \/ removed > removals

\* the for loop of line 101 ends: the list is exhausted, or line 102 breaks
CarveOver == idx > Len(cells) \/ removed >= removals

\* generate, lines 104-108: save the value, blank the cell, copy the board
\* and call solve on the copy
CarveBlank ==
    /\ gpc = "carve"
    /\ ~CarveOver
    /\ LET r == cells[idx][1]
           c == cells[idx][2]
           blanked == [board EXCEPT ![r][c] = 0]
       IN  /\ backup' = board[r][c]
           /\ board' = blanked
           /\ solve_board' = blanked
           /\ board0' = blanked
    /\ stack' = <<>>
    /\ pc' = "call"
    /\ ret' = FALSE
    /\ nwrites' = 0
    /\ UNCHANGED <<run, wlog, first>>
    /\ gpc' = "probe"
    /\ UNCHANGED <<difficulty, removals, error, fstack, fret, cells, idx, removed, rng>>
    /\ UNCHANGED filled
    /\ UNCHANGED gen_frame

\* mutant: line 111 is missing, a successful probe is not counted
CarveDecide_NoCount ==
    /\ gpc = "probe"
    /\ pc = "done"
    /\ IF ~ret
       THEN board' = [board EXCEPT ![cells[idx][1]][cells[idx][2]] = backup]
       ELSE board' = board
    /\ removed' = removed
    /\ idx' = idx + 1
    /\ gpc' = "carve"
    /\ pc' = "idle"
    /\ UNCHANGED <<difficulty, removals, error, fstack, fret, cells, backup, rng>>
    /\ UNCHANGED <<solve_board, board0, stack, ret, nwrites, run, wlog, first>>
    /\ UNCHANGED filled
    /\ UNCHANGED gen_frame

\* mutant: the loop does not move on to the next address
CarveDecide_Stays ==
    /\ gpc = "probe"
    /\ pc = "done"
    /\ IF ~ret
       THEN /\ board' = [board EXCEPT ![cells[idx][1]][cells[idx][2]] = backup]
            /\ removed' = removed
       ELSE /\ removed' = removed + 1
            /\ board' = board
    /\ idx' = idx
    /\ gpc' = "carve"
    /\ pc' = "idle"
    /\ UNCHANGED <<difficulty, removals, error, fstack, fret, cells, backup, rng>>
    /\ UNCHANGED <<solve_board, board0, stack, ret, nwrites, run, wlog, first>>
    /\ UNCHANGED filled
    /\ UNCHANGED gen_frame

\* mutant: line 107 binds copy_board to the live grid itself, so the grid
\* generate goes on with is the one the probe filled
CarveDecide_Aliased ==
    /\ gpc = "probe"
    /\ pc = "done"
    /\ IF ~ret
       THEN /\ board' = [solve_board EXCEPT ![cells[idx][1]][cells[idx][2]] = backup]
            /\ removed' = removed
       ELSE /\ removed' = removed + 1
            /\ board' = solve_board
    /\ idx' = idx + 1
    /\ gpc' = "carve"
    /\ pc' = "idle"
    /\ UNCHANGED <<difficulty, removals, error, fstack, fret, cells, backup, rng>>
    /\ UNCHANGED <<solve_board, board0, stack, ret, nwrites, run, wlog, first>>
    /\ UNCHANGED filled
    /\ UNCHANGED gen_frame

\* mutant: line 108 tests solve(copy_board), without the not
CarveDecide_Inverted ==
    /\ gpc = "probe"
    /\ pc = "done"
    /\ IF ret
       THEN /\ board' = [board EXCEPT ![cells[idx][1]][cells[idx][2]] = backup]
            /\ removed' = removed
       ELSE /\ removed' = removed + 1
            /\ board' = board
    /\ idx' = idx + 1
    /\ gpc' = "carve"
    /\ pc' = "idle"
    /\ UNCHANGED <<difficulty, removals, error, fstack, fret, cells, backup, rng>>
    /\ UNCHANGED <<solve_board, board0, stack, ret, nwrites, run, wlog, first>>
    /\ UNCHANGED filled
    /\ UNCHANGED gen_frame

\* generate, lines 108-111: solve returned; restore the cell, or count it
CarveDecide ==
    /\ gpc = "probe"
    /\ pc = "done"
    /\ IF ~ret
       THEN /\ board' = [board EXCEPT ![cells[idx][1]][cells[idx][2]] = backup]
            /\ removed' = removed
       ELSE /\ removed' = removed + 1
            /\ board' = board
    /\ idx' = idx + 1
    /\ gpc' = "carve"
    /\ pc' = "idle"
    /\ UNCHANGED <<difficulty, removals, error, fstack, fret, cells, backup, rng>>
    /\ UNCHANGED <<solve_board, board0, stack, ret, nwrites, run, wlog, first>>
    /\ UNCHANGED filled
    /\ UNCHANGED gen_frame

\* generate, line 113
GenReturn ==
    /\ gpc = "carve"
    /\ CarveOver
    /\ gpc' = "returned"
    /\ UNCHANGED <<difficulty, removals, error, board, fstack, fret, cells, idx,
                   removed, backup, rng>>
    /\ UNCHANGED solve_vars
    /\ UNCHANGED filled
    /\ UNCHANGED gen_frame

\* test_generate_and_solve, lines 14-15: the caller copies the returned
\* grid and calls solve on the copy
TestSolve ==
    /\ gpc = "returned"
    /\ solve_board' = board
    /\ board0' = board
    /\ stack' = <<>>
    /\ pc' = "call"
    /\ ret' = FALSE
    /\ nwrites' = 0
    /\ UNCHANGED <<run, wlog, first>>
    /\ gpc' = "test"
    /\ UNCHANGED <<difficulty, removals, error, board, fstack, fret, cells, idx,
                   removed, backup, rng>>
    /\ UNCHANGED filled
    /\ UNCHANGED gen_frame

GenNext ==
    \/ GenLookup
    \/ GenRaise
    \/ FillCall
    \/ FillPlace
    \/ FillExhausted
    \/ FillReturnTrue
    \/ FillUndo
    \/ GenCells
    \/ ShuffleRound
    \/ CarveStart
    \/ CarveBlank
    \/ SolveNext
    \/ CarveDecide
    \/ GenReturn
    \/ TestSolve

MaxSeed == 2

\* the arguments generate is called with
DifficultyInputs == {"easy", "medium", "hard", "impossible", "Easy", ""}

InitGen ==
    /\ gpc = "start"
    /\ difficulty \in DifficultyInputs
    /\ rng \in 0 .. MaxSeed
    /\ removals = 0
    /\ error = None
    /\ board = ZeroBoard
    /\ fstack = <<>>
    /\ fret = FALSE
    /\ cells = <<>>
    /\ idx = 0
    /\ removed = 0
    /\ backup = 0
    /\ filled = None
    /\ solve_board = ZeroBoard
    /\ board0 = ZeroBoard
    /\ stack = <<>>
    /\ pc = "idle"
    /\ ret = FALSE
    /\ nwrites = 0
    /\ run = 0
    /\ wlog = <<>>
    /\ first = None
    /\ ValidIdle
    /\ GuiIdle

SpecGen == InitGen /\ [][GenNext]_vars

(***************************************************************************)
(* _fill_board alone, on the blank board generate hands it (line 96), over *)
(* a larger range of seeds of the random source.                           *)
(***************************************************************************)
MaxFillSeed == 150

FillNext ==
    \/ FillCall
    \/ FillPlace
    \/ FillExhausted
    \/ FillReturnTrue
    \/ FillUndo

InitFill ==
    /\ gpc = "fill_call"
    /\ difficulty = "easy"
    /\ removals = difficulty_map["easy"]
    /\ rng \in 0 .. MaxFillSeed
    /\ error = None
    /\ board = ZeroBoard
    /\ fstack = <<>>
    /\ fret = FALSE
    /\ cells = <<>>
    /\ idx = 0
    /\ removed = 0
    /\ backup = 0
    /\ filled = None
    /\ solve_board = ZeroBoard
    /\ board0 = ZeroBoard
    /\ stack = <<>>
    /\ pc = "idle"
    /\ ret = FALSE
    /\ nwrites = 0
    /\ run = 0
    /\ wlog = <<>>
    /\ first = None
    /\ ValidIdle
    /\ GuiIdle

SpecFill == InitFill /\ [][FillNext]_vars

(***************************************************************************)
(* solve as one step, for the callers that use its result at once: the     *)
(* value returned and the board as the call leaves it.  try_from is the    *)
(* for loop of lines 50-55 at cell (r, c) from digit num on.               *)
(***************************************************************************)
RECURSIVE solve_result(_)
RECURSIVE try_from(_, _, _, _)

try_from(b, r, c, num) ==
    IF num > GRID_SIZE THEN [ret |-> FALSE, board |-> b]
    ELSE IF ~is_valid(b, r, c, num) THEN try_from(b, r, c, num + 1)
    ELSE CHOOSE res \in
            {IF nested.ret THEN nested ELSE try_from(b, r, c, num + 1) :
                nested \in {solve_result([b EXCEPT ![r][c] = num])}} : TRUE

solve_result(b) ==
    IF find_empty(b) = None THEN [ret |-> TRUE, board |-> b]
    ELSE CHOOSE res \in
            {try_from(b, e[1], e[2], 1) : e \in {find_empty(b)}} : TRUE

(***************************************************************************)
(* Progress.  solve and generate are sequential code: the statement the    *)
(* interpreter is at is executed, so a step that is enabled is eventually  *)
(* taken.  The runs are those of solve on the boards of the family and     *)
(* those of generate (with the solve runs it and its caller make).         *)
(***************************************************************************)
MaxLiveSeed == 0

InitLive == InitSolve \/ (InitGen /\ rng <= MaxLiveSeed)

SpecLive == InitLive /\ [][GenNext]_vars /\ WF_vars(GenNext)

(***************************************************************************)
(* The rules of Sudoku, stated on their own: the 27 units, a duplicate,    *)
(* a permutation, a completion.                                            *)
(***************************************************************************)
At(g, p) == g[p[1]][p[2]]

RowUnit(r) == {p \in Cells : p[1] = r}
ColUnit(c) == {p \in Cells : p[2] = c}
BoxUnit(i, j) == {p \in Cells : p[1] \div 3 = i /\ p[2] \div 3 = j}

Units ==
    {RowUnit(r) : r \in 0 .. 8} \cup {ColUnit(c) : c \in 0 .. 8}
    \cup {BoxUnit(i, j) : i \in 0 .. 2, j \in 0 .. 2}

\* the other cells of the row, the column and the box of p
Peers(p) == {q \in Cells : q # p /\ \E U \in Units : p \in U /\ q \in U}

BlankCells(g) == {p \in Cells : At(g, p) = 0}

\* no two cells of one unit hold the same digit
NoDuplicate(g) ==
    \A U \in Units : \A p \in U : \A q \in U :
        (p # q /\ At(g, p) # 0) => At(g, p) # At(g, q)

\* every row, column and box is a permutation of 1..9
ValidSolution(g) == \A U \in Units : {At(g, p) : p \in U} = 1 .. 9

\* the cells that are not blank in g hold the same value in h
Keeps(g, h) == \A p \in Cells : At(g, p) # 0 => At(h, p) = At(g, p)

\* some assignment of digits to the cells of S (the blanks of g) leaves no
\* duplicate: the assignments are enumerated cell by cell, a cell ranging
\* over the digits none of its peers holds
RECURSIVE Completable(_, _)
Completable(g, S) ==
    IF S = {} THEN NoDuplicate(g)
    ELSE LET p == CHOOSE p \in S : TRUE
         IN  \E v \in 1 .. 9 :
                /\ \A q \in Peers(p) : At(g, q) # v
                /\ Completable([g EXCEPT ![p[1]][p[2]] = v], S \ {p})

HasCompletion(g) == Completable(g, BlankCells(g))

\* the complete duplicate-free grids that extend g on the cells of S
RECURSIVE Completions(_, _)
Completions(g, S) ==
    IF S = {} THEN (IF NoDuplicate(g) THEN {g} ELSE {})
    ELSE LET p == CHOOSE p \in S : TRUE
         IN  UNION {Completions([g EXCEPT ![p[1]][p[2]] = v], S \ {p}) :
                        v \in {w \in 1 .. 9 : \A q \in Peers(p) : At(g, q) # w}}

AllCompletions(g) == Completions(g, BlankCells(g))

\* some assignment of digits to the cells of S leaves no duplicate and
\* gives a grid other than h
RECURSIVE CompletableOther(_, _, _)
CompletableOther(g, S, h) ==
    IF S = {} THEN NoDuplicate(g) /\ g # h
    ELSE LET p == CHOOSE p \in S : TRUE
         IN  \E v \in 1 .. 9 :
                /\ \A q \in Peers(p) : At(g, q) # v
                /\ CompletableOther([g EXCEPT ![p[1]][p[2]] = v], S \ {p}, h)

\* the position of a cell in row-major order
RowMajor(p) == 9 * p[1] + p[2]

\* grid a is not after grid b when the values of the blank cells of g are
\* read in row-major order and compared as sequences
LexLeq(g, a, b) ==
    LET D == {p \in BlankCells(g) : At(a, p) # At(b, p)}
    IN  \/ D = {}
        \/ LET p == CHOOSE p \in D : \A q \in D : RowMajor(p) <= RowMajor(q)
           IN  At(a, p) < At(b, p)

(***************************************************************************)
(* Claims.                                                                 *)
(***************************************************************************)

\* C1: for every difficulty and every outcome of the shuffles, the grid
\* returned by generate is solvable: solve on a copy of it returns true.
C1_GeneratedSolvable ==
    (gpc = "test" /\ pc = "done") => ret = TRUE

C1_Witness ==
    /\ gpc = "test"
    /\ pc = "done"
    /\ difficulty = "hard"
    /\ BlankCells(board) # {}
    /\ ret = TRUE

\* C2: the grid generate returns never has more blank cells than the
\* removal target: at most 36 for easy, 46 for medium, 54 for hard.
C2_BlankBound ==
    gpc \in {"returned", "test"} =>
        /\ difficulty = "easy" => Cardinality(BlankCells(board)) <= 36
        /\ difficulty = "medium" => Cardinality(BlankCells(board)) <= 46
        /\ difficulty = "hard" => Cardinality(BlankCells(board)) <= 54

C2_Witness ==
    /\ gpc = "returned"
    /\ difficulty = "medium"
    /\ Cardinality(BlankCells(board)) > 36

\* C3: generate with a difficulty outside {easy, medium, hard} ends in a
\* ValueError that names the offending value and the valid set, and returns
\* no grid.
C3_InvalidDifficulty ==
    (difficulty \notin {"easy", "medium", "hard"} /\ gpc # "start") =>
        /\ gpc = "raised"
        /\ error # None
        /\ error.type = "ValueError"
        /\ error.value = difficulty
        /\ {error.expected[i] : i \in 1 .. Len(error.expected)}
                = {"easy", "medium", "hard"}

C3_Witness ==
    /\ difficulty = "impossible"
    /\ gpc = "raised"

\* C4: solve on an all-blank grid returns true and leaves a grid in which
\* every row, column and box is a permutation of 1..9.
C4_BlankSolved ==
    (pc = "done" /\ BlankCells(board0) = Cells) =>
        (ret = TRUE /\ ValidSolution(solve_board))

C4_Witness ==
    /\ pc = "done"
    /\ BlankCells(board0) = Cells
    /\ nwrites >= 81

\* C5: on a grid whose non-blank cells hold no duplicate, solve returns true
\* if and only if some assignment of digits to the blank cells leaves every
\* row, column and box free of duplicates.
C5_TrueIffCompletable ==
    (pc = "done" /\ NoDuplicate(board0)) => (ret <=> HasCompletion(board0))

C5_Witness ==
    /\ pc = "done"
    /\ NoDuplicate(board0)
    /\ BlankCells(board0) # {}
    /\ ret = FALSE
    /\ nwrites > 0

\* C6: is_valid(grid, r, c, v) is true if and only if no cell other than
\* (r, c) in row r, column c or the box of (r, c) holds v; the result does
\* not depend on the value stored at (r, c); and when two distinct cells of
\* one row both hold v, is_valid for v at either of them is false.
C6_IsValidIffNoPeerHolds ==
    query # None =>
        LET p == <<query.row, query.col>>
            v == query.num
        IN  /\ answer <=> (\A q \in Peers(p) : At(solve_board, q) # v)
            /\ \A w \in 0 .. 9 :
                is_valid([solve_board EXCEPT ![p[1]][p[2]] = w], p[1], p[2], v) = answer
            /\ (/\ At(solve_board, p) = v
                /\ \E q \in RowUnit(p[1]) : q # p /\ At(solve_board, q) = v)
                    => answer = FALSE

C6_Witness ==
    /\ query # None
    /\ Cardinality(BlankCells(solve_board)) = 79
    /\ solve_board[query.row][query.col] = query.num
    /\ \E c \in 0 .. 8 : c # query.col /\ solve_board[query.row][c] = query.num
    /\ answer = FALSE

\* C7: if solve returns false, every cell that was non-blank before the call
\* holds its original value after it; and at every step of the search the
\* solver writes only to cells that were blank in the initial grid.
C7_WritesOnlyBlanks ==
    [][ /\ \A p \in Cells :
            At(solve_board', p) # At(solve_board, p) => At(board0, p) = 0
        /\ (pc' = "done" /\ ret' = FALSE) => Keeps(board0, solve_board')
      ]_vars

C7_Witness ==
    /\ pc = "done"
    /\ ret = FALSE
    /\ nwrites > 0
    /\ Cardinality(BlankCells(board0)) < 81

\* C8: solve on a grid with no blank cell returns true and changes no cell,
\* even when the grid holds a row, column or box duplicate.
C8_FullBoardIsSolved ==
    BlankCells(board0) = {} =>
        /\ solve_board = board0
        /\ nwrites = 0
        /\ pc = "done" => ret = TRUE

C8_Witness ==
    /\ pc = "done"
    /\ BlankCells(board0) = {}
    /\ ~NoDuplicate(board0)
    /\ ret = TRUE

\* C9: whenever solve returns true, the grid has no blank cell and every
\* cell that was non-blank before the call still holds its original value.
C9_TrueMeansFilled ==
    (pc = "done" /\ ret = TRUE) =>
        (BlankCells(solve_board) = {} /\ Keeps(board0, solve_board))

C9_Witness ==
    /\ pc = "done"
    /\ ret = TRUE
    /\ BlankCells(board0) # {}
    /\ nwrites > Cardinality(BlankCells(board0))

\* C10: solve is deterministic: two runs started on identical grids perform
\* the same sequence of cell writes and end with the same return value and
\* the same final grid.
C10_Deterministic ==
    run = 2 =>
        /\ Len(wlog) <= Len(first.wlog)
        /\ wlog = SubSeq(first.wlog, 1, Len(wlog))
        /\ pc = "done" =>
            /\ ret = first.ret
            /\ solve_board = first.board
            /\ wlog = first.wlog

C10_Witness ==
    /\ run = 2
    /\ pc = "done"
    /\ Len(wlog) > Cardinality(BlankCells(board0))

\* C11: when solve returns true on a grid whose non-blank cells hold no
\* duplicate, the grid it leaves is a valid completion of the initial grid
\* and the smallest one: read in row-major order, the values of the cells
\* that were blank are not after those of any other valid completion.
C11_SmallestCompletion ==
    (pc = "done" /\ ret = TRUE /\ NoDuplicate(board0)) =>
        /\ solve_board \in AllCompletions(board0)
        /\ \A h \in AllCompletions(board0) : LexLeq(board0, solve_board, h)

C11_Witness ==
    /\ pc = "done"
    /\ ret = TRUE
    /\ NoDuplicate(board0)
    /\ Cardinality(AllCompletions(board0)) > 1

\* C12: is_valid never modifies the grid: for every grid, cell and digit,
\* the grid after the call equals the grid before the call.
C12_IsValidReadOnly ==
    [][query' # query => solve_board' = solve_board]_vars

C12_Witness ==
    /\ query # None
    /\ answer = TRUE
    /\ solve_board[query.row][query.col] = 0
    /\ solve_board = board0

\* C13: _fill_board started on an entirely blank grid returns true and
\* leaves a complete grid in which every row, column and box is a
\* permutation of 1..9, whatever the shuffles of the digits were.
C13_FillerFills ==
    (gpc = "fill_return" /\ fstack = <<>>) =>
        (fret = TRUE /\ BlankCells(board) = {} /\ ValidSolution(board))

C13_Witness ==
    /\ gpc = "fill_return"
    /\ fstack = <<>>
    /\ fret = TRUE
    /\ board[0] # Solved[0]
    /\ ValidSolution(board)

\* C14: when generate is called with an invalid difficulty the failure comes
\* before any grid is built: the filler is never run, no cell is written
\* and no shuffle is drawn from the random source before the error is
\* raised.
C14_FailsBeforeWork ==
    [][difficulty \notin {"easy", "medium", "hard"} =>
            /\ gpc' \notin {"fill_call", "fill_loop", "fill_return", "shuffle",
                             "carve", "probe", "returned"}
            /\ rng' = rng
            /\ board' = board
            /\ BlankCells(board') = Cells
            /\ fstack' = <<>>
            /\ cells' = <<>>
      ]_vars

C14_Witness ==
    /\ difficulty = "Easy"
    /\ gpc = "raised"
    /\ error # None
    /\ rng \in 0 .. MaxSeed
    /\ BlankCells(board) = Cells

\* C15: generate does not guarantee a unique solution: every grid it
\* returns admits at least one valid completion, and some grid it returns
\* admits more than one (the witness: a returned grid, the completion solve
\* found for it, and a second completion).
C15_AtLeastOneCompletion ==
    gpc = "returned" => (NoDuplicate(board) /\ HasCompletion(board))

C15_Witness ==
    /\ gpc = "test"
    /\ pc = "done"
    /\ ValidSolution(solve_board)
    /\ Keeps(board, solve_board)
    /\ CompletableOther(board, BlankCells(board), solve_board)

\* C16: when solve returns true on a grid whose non-blank cells contain no
\* row, column or box duplicate, the resulting grid is a valid Sudoku
\* solution: every row, column and box is a permutation of 1..9.
C16_TrueMeansValid ==
    (pc = "done" /\ ret = TRUE /\ NoDuplicate(board0)) => ValidSolution(solve_board)

C16_Witness ==
    /\ pc = "done"
    /\ ret = TRUE
    /\ NoDuplicate(board0)
    /\ Cardinality(BlankCells(board0)) >= 4
    /\ nwrites > Cardinality(BlankCells(board0))
    /\ ValidSolution(solve_board)

\* C17: when solve returns false on a grid that is not malformed (its
\* non-blank cells hold no duplicate), the grid after the call is
\* cell-for-cell equal to the grid before the call: every cell the search
\* wrote has been reset to blank.
C17_FalseRestoresWellFormed ==
    (pc = "done" /\ ret = FALSE /\ NoDuplicate(board0)) => solve_board = board0

C17_Witness ==
    /\ pc = "done"
    /\ ret = FALSE
    /\ NoDuplicate(board0)
    /\ nwrites >= 4
    /\ solve_board = board0

\* C18: restoration on failure does not depend on the grid being
\* well-formed: for every initial grid, one whose non-blank cells already
\* hold a row, column or box duplicate included, solve returning false
\* leaves the grid cell-for-cell equal to what it was before the call.
C18_FalseRestoresAlways ==
    (pc = "done" /\ ret = FALSE) => solve_board = board0

C18_Witness ==
    /\ pc = "done"
    /\ ret = FALSE
    /\ ~NoDuplicate(board0)
    /\ nwrites >= 4
    /\ solve_board = board0

\* C19: generate always removes exactly the removal target: the returned
\* grid has exactly 36 blank cells for easy, 46 for medium and 54 for hard,
\* because every solvability probe made during carving returns true and the
\* branch that restores the cell is never taken.
C19_ExactRemovals ==
    /\ gpc \in {"returned", "test"} =>
            /\ difficulty = "easy" => Cardinality(BlankCells(board)) = 36
            /\ difficulty = "medium" => Cardinality(BlankCells(board)) = 46
            /\ difficulty = "hard" => Cardinality(BlankCells(board)) = 54
    /\ (gpc = "probe" /\ pc = "done") => ret = TRUE
    /\ gpc \in {"carve", "probe", "returned", "test"} =>
            Cardinality(BlankCells(board)) = removed + (IF gpc = "probe" THEN 1 ELSE 0)

C19_Witness ==
    /\ gpc = "returned"
    /\ difficulty = "hard"
    /\ removed = 54
    /\ idx = 55
    /\ Cardinality(BlankCells(board)) = 54

\* C20: during carving the solvability probe never changes the live grid:
\* solve runs on a copy, so from the blanking of a cell to the decision to
\* keep or restore it no cell of the live grid other than the one just
\* blanked differs from its value before the probe; the blanked cell stays
\* blank while the probe runs and after a probe that returned true.
C20_ProbeKeepsLiveGrid ==
    [][ /\ (gpc = "carve" /\ gpc' = "probe") =>
                /\ board' = [board EXCEPT ![cells[idx][1]][cells[idx][2]] = 0]
                /\ solve_board' = board'
        /\ (gpc = "probe" /\ gpc' = "probe") => board' = board
        /\ (gpc = "probe" /\ gpc' # "probe") =>
                board' = IF ret THEN board
                         ELSE [board EXCEPT ![cells[idx][1]][cells[idx][2]] = backup]
      ]_vars

C20_Witness ==
    /\ gpc = "probe"
    /\ pc = "done"
    /\ nwrites >= 40
    /\ board = board0
    /\ BlankCells(solve_board) = {}
    /\ Cardinality(BlankCells(board)) >= 30

\* C21: at the start of every iteration of the carving loop the number of
\* blank cells of the live grid equals removed: the step that ends a probe
\* leaves the cell blank and adds one to removed when the probe returned
\* true, and puts the saved value back and leaves removed alone when it
\* returned false.
C21_BlanksEqualRemoved ==
    [][ /\ gpc' = "carve" => Cardinality(BlankCells(board')) = removed'
        /\ (gpc = "probe" /\ gpc' = "carve") =>
                LET r == cells[idx][1]
                    c == cells[idx][2]
                IN  IF ret
                    THEN removed' = removed + 1 /\ board'[r][c] = 0
                    ELSE removed' = removed /\ board'[r][c] = backup /\ backup # 0
      ]_vars

C21_Witness ==
    /\ gpc = "carve"
    /\ removed = 20
    /\ idx = 21
    /\ Cardinality(BlankCells(board)) = 20
    /\ board[cells[20][1]][cells[20][2]] = 0

\* C22: the carving loop visits each of the 81 addresses at most once, in
\* the order of the shuffled list, and generate returns as soon as removed
\* reaches the target or the list is exhausted; no cell is blanked once
\* removed has reached the target.
C22_CarveOrder ==
    [][ /\ gpc' \in {"carve", "probe", "returned"} =>
                /\ Len(cells') = 81
                /\ {cells'[k] : k \in 1 .. 81} = Cells
        /\ gpc \in {"carve", "probe"} => cells' = cells
        /\ (gpc = "carve" /\ gpc' = "probe") =>
                /\ removed < removals
                /\ idx <= 81
                /\ idx' = idx
                /\ board[cells[idx][1]][cells[idx][2]] # 0
                /\ board' = [board EXCEPT ![cells[idx][1]][cells[idx][2]] = 0]
        /\ (gpc = "probe" /\ gpc' = "carve") => idx' = idx + 1
        /\ (gpc = "carve" /\ (removed >= removals \/ idx > 81)) =>
                (gpc' = "returned" /\ board' = board)
        /\ gpc' \in {"carve", "probe"} =>
                BlankCells(board') \subseteq {cells'[k] : k \in 1 .. idx'}
      ]_vars

C22_Witness ==
    /\ gpc = "returned"
    /\ difficulty = "easy"
    /\ removed = 36
    /\ idx = 37
    /\ board[cells[37][1]][cells[37][2]] # 0

\* C23: every non-blank cell of the grid generate returns holds the value
\* that cell had in the complete grid the filler produced, so the filler's
\* grid is a valid completion of the returned puzzle and the non-blank cells
\* of the puzzle hold no row, column or box duplicate.
C23_CluesFromFilledGrid ==
    gpc \in {"carve", "returned"} =>
        /\ filled # None
        /\ ValidSolution(filled)
        /\ Keeps(board, filled)
        /\ NoDuplicate(board)

C23_Witness ==
    /\ gpc = "returned"
    /\ difficulty = "medium"
    /\ Cardinality(BlankCells(board)) = 46
    /\ ValidSolution(filled)
    /\ \A p \in Cells : At(board, p) \in {0, At(filled, p)}

\* C24: at every point of a solve search the cells the solver has filled
\* are a prefix, in row-major order, of the cells that were blank in the
\* initial grid: when the search is working on a blank cell, every initially
\* blank cell before it is filled and every initially blank cell from it on
\* is blank; and each value the solver places is a digit no other cell of
\* the row, column or box held at the moment it was placed.
C24_FilledPrefix ==
    [][ /\ LET B == BlankCells(board0)
               F == {p \in B : At(solve_board', p) # 0}
           IN  \A p \in F : \A q \in B \ F : RowMajor(p) < RowMajor(q)
        /\ pc' = "loop" =>
                LET p == <<stack'[Len(stack')].r, stack'[Len(stack')].c>>
                IN  /\ p \in BlankCells(board0)
                    /\ \A q \in BlankCells(board0) :
                        IF RowMajor(q) < RowMajor(p) THEN At(solve_board', q) # 0
                                                    ELSE At(solve_board', q) = 0
        /\ (pc = "loop" /\ pc' = "call") =>
                LET p == <<Top.r, Top.c>>
                    v == At(solve_board', p)
                IN  /\ At(solve_board, p) = 0
                    /\ v \in 1 .. 9
                    /\ \A q \in Peers(p) : At(solve_board, q) # v
      ]_vars

C24_Witness ==
    /\ pc = "loop"
    /\ Len(stack) = 3
    /\ Cardinality(BlankCells(board0)) = 5
    /\ Cardinality(BlankCells(solve_board)) = 3
    /\ Top.num > 0

\* C25: the recursion depth of solve and of _fill_board never exceeds the
\* number of blank cells of the initial grid plus one (at most 81 nested
\* placements): each nested call is entered with exactly one more cell
\* filled than its caller.
C25_DepthBound ==
    /\ pc \in {"call", "loop", "return"} =>
            LET depth == Len(stack) + (IF pc = "call" THEN 1 ELSE 0)
                blanks0 == Cardinality(BlankCells(board0))
            IN  /\ depth <= blanks0 + 1
                /\ Len(stack) <= 81
                /\ pc = "call" =>
                        blanks0 - Cardinality(BlankCells(solve_board)) = Len(stack)
    /\ gpc \in {"fill_call", "fill_loop", "fill_return"} =>
            LET depth == Len(fstack) + (IF gpc = "fill_call" THEN 1 ELSE 0)
            IN  /\ depth <= 81 + 1
                /\ Len(fstack) <= 81
                /\ gpc = "fill_call" =>
                        81 - Cardinality(BlankCells(board)) = Len(fstack)

C25_Witness ==
    /\ gpc = "probe"
    /\ pc = "call"
    /\ Cardinality(BlankCells(board0)) = 54
    /\ Len(stack) = 54
    /\ BlankCells(solve_board) = {}

\* C26: solve terminates on every grid of values in 0..9, and generate
\* terminates for every valid difficulty and every outcome of the shuffles:
\* every call of solve that is started reaches its return of true or false
\* and every call of generate with a valid difficulty reaches its return
\* (a run that came back to a state it had been in would never return).
C26_Terminates ==
    /\ (pc = "call" /\ stack = <<>>) ~> (pc = "done")
    /\ (gpc = "start" /\ difficulty \in {"easy", "medium", "hard"}) ~> (gpc = "returned")

C26_Witness ==
    /\ gpc = "idle"
    /\ pc = "done"
    /\ ret = FALSE
    /\ nwrites >= 6

(***************************************************************************)
(* SessionTracker (src/sudoku/gui_modern/session.py).  A tracker is a      *)
(* record of its attributes; a method is an operator from the tracker      *)
(* before the call to the tracker after it, with the value returned where  *)
(* the method returns one.  A Move is a record of its fields; the undo and *)
(* redo stacks hold the move_id of each Move object they reference, and    *)
(* the Move with move_id k is move_history[k] (start empties the history   *)
(* and resets the counter together).  Clock readings (timestamp,           *)
(* _start_time) and username are left out: no branch reads them.           *)
(***************************************************************************)
SessionStats == [moves |-> 0, correct |-> 0, wrong |-> 0]

\* F applied to the value of x: a statement that uses the result of the
\* statement before it
Bind(x, F(_)) == CHOOSE out \in {F(y) : y \in {x}} : TRUE

\* __init__, lines 18-32
SessionTracker ==
    [difficulty |-> "easy",
     solution |-> None,
     stats |-> SessionStats,
     move_history |-> <<>>,
     undo_stack |-> <<>>,
     redo_stack |-> <<>>,
     board_snapshot |-> ZeroBoard,
     next_move_id |-> 1,
     tracking_enabled |-> FALSE,
     tracking_suspensions |-> 0,
     puzzle_completed |-> FALSE]

\* _compute_solution, lines 53-57
compute_solution(b) ==
    Bind(solve_result(b), LAMBDA r : IF r.ret THEN r.board ELSE None)

\* start, lines 35-48
start(s, diff, b) ==
    [difficulty |-> diff,
     solution |-> compute_solution(b),
     stats |-> SessionStats,
     move_history |-> <<>>,
     undo_stack |-> <<>>,
     redo_stack |-> <<>>,
     board_snapshot |-> b,
     next_move_id |-> 1,
     tracking_enabled |-> TRUE,
     tracking_suspensions |-> 0,
     puzzle_completed |-> FALSE]

\* set_board_snapshot, lines 50-51
set_board_snapshot(s, b) == [s EXCEPT !.board_snapshot = b]

\* tracking_active, lines 79-80
tracking_active(s) ==
    s.tracking_enabled /\ s.tracking_suspensions = 0 /\ ~s.puzzle_completed

\* suspend_tracking, lines 85-91: entering and leaving the with block
suspend_enter(s) ==
    [s EXCEPT !.tracking_suspensions = s.tracking_suspensions + 1]

Max0(n) == IF n < 0 THEN 0 ELSE n

suspend_exit(s) ==
    [s EXCEPT !.tracking_suspensions = Max0(s.tracking_suspensions - 1)]

\* mutant: undoing a move leaves the statistics as they are
mutate_stats_AddOnly(s, move, add) ==
    IF ~add THEN s
    ELSE [s EXCEPT !.stats =
            [moves |-> Max0(s.stats.moves + move.added_move),
             correct |-> Max0(s.stats.correct + move.added_correct),
             wrong |-> Max0(s.stats.wrong + move.added_wrong)]]

\* _mutate_stats, lines 172-176
mutate_stats(s, move, add) ==
    LET factor == IF add THEN 1 ELSE -1
    IN  [s EXCEPT !.stats =
            [moves |-> Max0(s.stats.moves + factor * move.added_move),
             correct |-> Max0(s.stats.correct + factor * move.added_correct),
             wrong |-> Max0(s.stats.wrong + factor * move.added_wrong)]]

\* mutant: a new move leaves the redo stack as it is
create_move_KeepsRedo(s, row, col, previous, current) ==
    LET added_move == IF current # previous /\ current # 0 THEN 1 ELSE 0
        counted == added_move = 1 /\ s.solution # None
        move == [row |-> row, col |-> col, previous |-> previous,
                 current |-> current, move_id |-> s.next_move_id,
                 added_move |-> added_move,
                 added_correct |->
                    IF counted /\ current = s.solution[row][col] THEN 1 ELSE 0,
                 added_wrong |->
                    IF counted /\ current # s.solution[row][col] THEN 1 ELSE 0,
                 active |-> TRUE]
    IN  mutate_stats([s EXCEPT !.next_move_id = s.next_move_id + 1,
                               !.move_history = Append(s.move_history, move),
                               !.undo_stack = Append(s.undo_stack, move.move_id)],
                     move, TRUE)

\* _create_move, lines 115-141
create_move(s, row, col, previous, current) ==
    LET added_move == IF current # previous /\ current # 0 THEN 1 ELSE 0
        counted == added_move = 1 /\ s.solution # None
        move == [row |-> row, col |-> col, previous |-> previous,
                 current |-> current, move_id |-> s.next_move_id,
                 added_move |-> added_move,
                 added_correct |->
                    IF counted /\ current = s.solution[row][col] THEN 1 ELSE 0,
                 added_wrong |->
                    IF counted /\ current # s.solution[row][col] THEN 1 ELSE 0,
                 active |-> TRUE]
    IN  mutate_stats([s EXCEPT !.next_move_id = s.next_move_id + 1,
                               !.move_history = Append(s.move_history, move),
                               !.undo_stack = Append(s.undo_stack, move.move_id),
                               !.redo_stack = <<>>],
                     move, TRUE)

\* the cells where two boards differ, in the order lines 101-106 meet them
RECURSIVE diffs_from(_, _, _)
diffs_from(old, new, k) ==
    IF k >= GRID_SIZE * GRID_SIZE THEN <<>>
    ELSE LET r == k \div GRID_SIZE
             c == k % GRID_SIZE
         IN  IF old[r][c] # new[r][c]
             THEN <<[row |-> r, col |-> c, previous |-> old[r][c],
                     current |-> new[r][c]]>> \o diffs_from(old, new, k + 1)
             ELSE diffs_from(old, new, k + 1)

\* line 111: _create_move for each difference in turn
RECURSIVE create_moves(_, _, _)
create_moves(s, diffs, k) ==
    IF k > Len(diffs) THEN s
    ELSE create_moves(create_move(s, diffs[k].row, diffs[k].col,
                                  diffs[k].previous, diffs[k].current),
                      diffs, k + 1)

\* record_differences, lines 94-113; ret is the list of moves created
record_differences(s, b) ==
    IF ~tracking_active(s)
    THEN [session |-> set_board_snapshot(s, b), ret |-> <<>>]
    ELSE Bind(diffs_from(s.board_snapshot, b, 0), LAMBDA diffs :
            IF diffs = <<>> THEN [session |-> s, ret |-> <<>>]
            ELSE Bind(create_moves(s, diffs, 1), LAMBDA after :
                    [session |-> [after EXCEPT !.board_snapshot = b],
                     ret |-> SubSeq(after.move_history,
                                    Len(s.move_history) + 1,
                                    Len(after.move_history))]))

\* undo, lines 143-152
undo(s) ==
    IF s.undo_stack = <<>> THEN [session |-> s, ret |-> None]
    ELSE LET id == s.undo_stack[Len(s.undo_stack)]
             move == [s.move_history[id] EXCEPT !.active = FALSE]
             popped == [s EXCEPT
                          !.undo_stack = SubSeq(s.undo_stack, 1, Len(s.undo_stack) - 1),
                          !.move_history[id] = move,
                          !.redo_stack = Append(s.redo_stack, id)]
         IN  [session |-> [mutate_stats(popped, move, FALSE) EXCEPT
                              !.tracking_enabled = TRUE,
                              !.puzzle_completed = FALSE],
              ret |-> move]

\* redo, lines 154-161
redo(s) ==
    IF s.redo_stack = <<>> THEN [session |-> s, ret |-> None]
    ELSE LET id == s.redo_stack[Len(s.redo_stack)]
             move == [s.move_history[id] EXCEPT !.active = TRUE]
             popped == [s EXCEPT
                          !.redo_stack = SubSeq(s.redo_stack, 1, Len(s.redo_stack) - 1),
                          !.move_history[id] = move,
                          !.undo_stack = Append(s.undo_stack, id)]
         IN  [session |-> mutate_stats(popped, move, TRUE), ret |-> move]

\* clear_redo, lines 163-164
clear_redo(s) == [s EXCEPT !.redo_stack = <<>>]

\* undo_available and redo_available, lines 166-170
undo_available(s) == s.undo_stack # <<>>
redo_available(s) == s.redo_stack # <<>>

\* mark_completed, lines 179-181
mark_completed(s) ==
    [s EXCEPT !.puzzle_completed = TRUE, !.tracking_enabled = FALSE]

\* total_input_actions, lines 76-77
total_input_actions(s) ==
    Cardinality({k \in DOMAIN s.move_history :
                    s.move_history[k].active /\ s.move_history[k].current # 0})

\* completion_entry, lines 183-193
completion_entry(s) ==
    [difficulty |-> s.difficulty,
     moves |-> s.stats.moves,
     correct |-> s.stats.correct,
     wrong |-> s.stats.wrong,
     total_moves |-> total_input_actions(s)]

\* lines 207-216: every cell is filled and clashes with no other cell
cells_valid(b) ==
    \A r \in Idx, c \in Idx :
        b[r][c] # 0 /\ is_valid([b EXCEPT ![r][c] = 0], r, c, b[r][c])

\* check_completion, lines 195-219
check_completion(s, b, has_errors) ==
    IF \/ s.puzzle_completed
       \/ has_errors
       \/ \E r \in Idx, c \in Idx : b[r][c] = 0
       \/ s.solution # None /\ b # s.solution
       \/ s.solution = None /\ ~cells_valid(b)
    THEN [session |-> s, ret |-> FALSE]
    ELSE [session |-> mark_completed(s), ret |-> TRUE]

(***************************************************************************)
(* A client that drives one SessionTracker: each action is one method      *)
(* call.  The boards it passes are the solved grid with some cells of      *)
(* TrackerPool blank or holding a digit of TrackerDigits, and one grid     *)
(* solve cannot complete; it stops recording once MaxMoves moves exist.    *)
(***************************************************************************)
TrackerPoolSize == 2
MaxDigit == 1
MaxMoves == 2
MaxSuspensions == 1

TrackerPool == {PoolCells[i] : i \in 1 .. TrackerPoolSize}
TrackerDigits == 0 .. MaxDigit

\* the pool is blank and solve finds no digits for the first two cells of
\* row 0: a second 1 stands in column 0
Unsolvable == [Blanked(Solved, TrackerPool) EXCEPT ![1][0] = 1]

TrackerBoards == {Blanked(Solved, TrackerPool), Unsolvable}

\* the board b with one or two cells of the pool changed
Edits(b) ==
    {[b EXCEPT ![p[1]][p[2]] = d] : p \in TrackerPool, d \in TrackerDigits}
    \cup {[b EXCEPT ![p[1]][p[2]] = d, ![q[1]][q[2]] = e] :
            p \in TrackerPool, q \in TrackerPool, d \in TrackerDigits,
            e \in TrackerDigits}

gui_frame == <<solve_vars, gen_vars, valid_vars>>

TrackerStart ==
    /\ \E b \in TrackerBoards :
        /\ session' = start(session, "custom", b)
        /\ call' = [op |-> "start", ret |-> None]
    /\ UNCHANGED <<win, revealed>>
    /\ UNCHANGED gui_frame

TrackerRecord ==
    /\ \E b \in Edits(session.board_snapshot) :
        \E res \in {record_differences(session, b)} :
            /\ res.session.next_move_id <= MaxMoves + 1
            /\ session' = res.session
            /\ call' = [op |-> "record_differences", ret |-> res.ret]
    /\ UNCHANGED <<win, revealed>>
    /\ UNCHANGED gui_frame

TrackerUndo ==
    /\ \E res \in {undo(session)} :
        /\ session' = res.session
        /\ call' = [op |-> "undo", ret |-> res.ret]
    /\ UNCHANGED <<win, revealed>>
    /\ UNCHANGED gui_frame

TrackerRedo ==
    /\ \E res \in {redo(session)} :
        /\ session' = res.session
        /\ call' = [op |-> "redo", ret |-> res.ret]
    /\ UNCHANGED <<win, revealed>>
    /\ UNCHANGED gui_frame

TrackerClearRedo ==
    /\ session' = clear_redo(session)
    /\ call' = [op |-> "clear_redo", ret |-> None]
    /\ UNCHANGED <<win, revealed>>
    /\ UNCHANGED gui_frame

TrackerSuspend ==
    /\ session.tracking_suspensions < MaxSuspensions
    /\ session' = suspend_enter(session)
    /\ call' = [op |-> "suspend_tracking", ret |-> None]
    /\ UNCHANGED <<win, revealed>>
    /\ UNCHANGED gui_frame

TrackerResume ==
    /\ session.tracking_suspensions > 0
    /\ session' = suspend_exit(session)
    /\ call' = [op |-> "resume_tracking", ret |-> None]
    /\ UNCHANGED <<win, revealed>>
    /\ UNCHANGED gui_frame

TrackerMarkCompleted ==
    /\ session' = mark_completed(session)
    /\ call' = [op |-> "mark_completed", ret |-> None]
    /\ UNCHANGED <<win, revealed>>
    /\ UNCHANGED gui_frame

TrackerCheckCompletion ==
    /\ \E has_errors \in BOOLEAN :
        \E res \in {check_completion(session, session.board_snapshot, has_errors)} :
            /\ session' = res.session
            /\ call' = [op |-> "check_completion", ret |-> res.ret]
    /\ UNCHANGED <<win, revealed>>
    /\ UNCHANGED gui_frame

TrackerNext ==
    \/ TrackerStart
    \/ TrackerRecord
    \/ TrackerUndo
    \/ TrackerRedo
    \/ TrackerClearRedo
    \/ TrackerSuspend
    \/ TrackerResume
    \/ TrackerMarkCompleted
    \/ TrackerCheckCompletion

SolveIdle ==
    /\ solve_board = ZeroBoard
    /\ board0 = ZeroBoard
    /\ stack = <<>>
    /\ pc = "idle"
    /\ ret = FALSE
    /\ nwrites = 0
    /\ run = 0
    /\ wlog = <<>>
    /\ first = None

InitTracker ==
    /\ session = SessionTracker
    /\ call = None
    /\ win = None
    /\ revealed = FALSE
    /\ SolveIdle
    /\ GenIdle
    /\ ValidIdle

SpecTracker == InitTracker /\ [][TrackerNext]_vars

\* the sum of one added_* field over the moves the undo stack references
RECURSIVE SumOver(_, _, _)
SumOver(s, stk, field) ==
    IF stk = <<>> THEN 0
    ELSE s.move_history[stk[Len(stk)]][field]
         + SumOver(s, SubSeq(stk, 1, Len(stk) - 1), field)

\* C27: the statistics of a tracker are the sums of added_move,
\* added_correct and added_wrong over the moves on its undo stack (so the
\* clamp at 0 never bites), and a redo that follows an undo puts the
\* statistics back to what they were before the undo.
C27_StatsAreUndoStackSums ==
    /\ session.stats.moves = SumOver(session, session.undo_stack, "added_move")
    /\ session.stats.correct = SumOver(session, session.undo_stack, "added_correct")
    /\ session.stats.wrong = SumOver(session, session.undo_stack, "added_wrong")
    /\ undo(session).ret # None =>
          redo(undo(session).session).session.stats = session.stats

C27_Witness ==
    /\ call # None
    /\ call.op = "redo"
    /\ call.ret # None
    /\ session.stats.moves = 2
    /\ session.stats.wrong = 1
    /\ session.stats.correct = 1

\* C28: a call of record_differences that records at least one move leaves
\* the redo stack empty, so that redo_available() is false and a redo() made
\* right then returns None and changes nothing; and a call of undo() made
\* while the undo stack is empty returns None and changes nothing.
C28_RecordDiscardsRedo ==
    [][/\ (call'.op = "record_differences" /\ call'.ret # <<>>) =>
            /\ ~redo_available(session')
            /\ redo(session').ret = None
            /\ redo(session').session = session'
       /\ (call'.op = "undo" /\ session.undo_stack = <<>>) =>
            /\ call'.ret = None
            /\ session' = session
       /\ (call'.op = "redo" /\ session.redo_stack = <<>>) =>
            /\ call'.ret = None
            /\ session' = session]_vars

C28_Witness ==
    /\ call # None
    /\ call.op = "record_differences"
    /\ call.ret # <<>>
    /\ Len(session.move_history) = 2
    /\ ~session.move_history[1].active
    /\ session.redo_stack = <<>>

(***************************************************************************)
(* SudokuMainWindow with its board widget, virtual keyboard and            *)
(* leaderboard (main_window.py, board.py, keyboard.py, leaderboard.py).    *)
(* A window is a record:                                                   *)
(*   session      its SessionTracker                                       *)
(*   cells        the value shown by each SudokuCell (to_board)            *)
(*   locked_map   SudokuBoard._locked_map, as the set of locked cells      *)
(*   error_cells  SudokuBoard._error_cells                                 *)
(*   flashes      the cells with a remove_flash timer still to fire        *)
(*   focus        the cell that holds the keyboard focus, or None          *)
(*   active_cell  SudokuMainWindow._active_cell                            *)
(*   keyboard     what the last update_options enabled: the number buttons *)
(*                (numbers) and the clear button (clear)                   *)
(*   undo_button, redo_button   whether each button is enabled             *)
(*   entries      the entries the leaderboard has gained, oldest first     *)
(*                (add_entry orders them by elapsed time, which the model  *)
(*                does not carry)                                          *)
(* A signal calls its slots at once, so a slot is an operator applied      *)
(* where the signal is emitted, and a handler is the composition of the    *)
(* calls it makes.  Settings stay at their defaults (show_errors on).      *)
(***************************************************************************)
Value(w, p) == w.cells[p[1]][p[2]]

\* SudokuBoard.allowed_values, board.py lines 360-369
allowed_values(w, p) ==
    IF p \in w.locked_map THEN {}
    ELSE LET b == [w.cells EXCEPT ![p[1]][p[2]] = 0]
         IN  {v \in Digits : is_valid(b, p[1], p[2], v)}
             \cup {v \in {Value(w, p)} : v # 0 /\ is_valid(b, p[1], p[2], v)}

\* VirtualKeyboard.update_options, keyboard.py lines 124-128
update_options(allowed, active, current) ==
    [numbers |-> IF active THEN allowed ELSE {},
     clear |-> active /\ current # 0]

\* _refresh_keyboard_options, main_window.py lines 524-535
refresh_keyboard_options(w) ==
    [w EXCEPT !.keyboard =
        IF w.session.puzzle_completed \/ w.active_cell = None
        THEN update_options({}, FALSE, 0)
        ELSE update_options(allowed_values(w, w.active_cell),
                            w.active_cell \notin w.locked_map,
                            Value(w, w.active_cell))]

\* _update_undo_redo_state, main_window.py lines 329-331
update_undo_redo_state(w) ==
    [w EXCEPT !.undo_button = undo_available(w.session),
              !.redo_button = redo_available(w.session)]

\* _handle_cell_focus, main_window.py lines 351-356; cell is None for (-1, -1)
handle_cell_focus(w, cell) ==
    refresh_keyboard_options([w EXCEPT !.active_cell = cell])

\* _handle_completion, main_window.py lines 538-557, with
\* LeaderboardManager.add_entry, leaderboard.py lines 80-83
handle_completion(w) ==
    Bind(refresh_keyboard_options(
            [w EXCEPT !.session = mark_completed(w.session)]),
         LAMBDA w1 :
            update_undo_redo_state(
                [w1 EXCEPT !.entries = Append(w1.entries,
                                              completion_entry(w1.session))]))

\* _handle_board_edit, main_window.py lines 358-368
handle_board_edit(w) ==
    Bind(record_differences(w.session, w.cells), LAMBDA rec :
    Bind(refresh_keyboard_options(
            IF rec.ret # <<>>
            THEN update_undo_redo_state([w EXCEPT !.session = rec.session])
            ELSE [w EXCEPT !.session = rec.session]), LAMBDA w2 :
    Bind(check_completion(w2.session, w2.cells, w2.error_cells # {}),
         LAMBDA chk :
            IF chk.ret
            THEN handle_completion([w2 EXCEPT !.session = chk.session])
            ELSE [w2 EXCEPT !.session = chk.session])))

\* the filled cells that clash with another cell
Clashing(b) ==
    {p \in Cells : b[p[1]][p[2]] # 0
                   /\ ~is_valid([b EXCEPT ![p[1]][p[2]] = 0], p[1], p[2],
                                b[p[1]][p[2]])}

\* SudokuBoard._on_cell_value_changed, board.py lines 426-442
on_cell_value_changed(w) ==
    handle_board_edit([w EXCEPT !.error_cells = Clashing(w.cells)])

\* QLineEdit.setText on SudokuCell p with its signals not blocked:
\* textChanged is emitted when the text changes (connected at board.py 273)
setText(w, p, v) ==
    IF Value(w, p) = v THEN w
    ELSE on_cell_value_changed([w EXCEPT !.cells[p[1]][p[2]] = v])

\* SudokuBoard.set_board, board.py lines 289-304: the cells are written with
\* their signals blocked, clear_highlight (lines 335-339) empties the error
\* set and emits cellFocused(-1, -1), then boardEdited is emitted
set_board(w, b, locked) ==
    handle_board_edit(
        handle_cell_focus([w EXCEPT !.cells = b,
                                    !.locked_map = locked,
                                    !.error_cells = {}],
                          None))

\* SudokuBoard.flash_invalid, board.py lines 349-358
flash_invalid(w, p) ==
    [w EXCEPT !.error_cells = @ \cup {p}, !.flashes = @ \cup {p}]

\* the with block of undo_move, redo_move and the keyboard handlers:
\* tracking is suspended while cell p is set to v
suspended_setText(w, p, v) ==
    Bind(setText([w EXCEPT !.session = suspend_enter(w.session)], p, v),
         LAMBDA w1 : [w1 EXCEPT !.session = suspend_exit(w1.session)])

take_snapshot(w) ==
    [w EXCEPT !.session = set_board_snapshot(w.session, w.cells)]

\* _handle_keyboard_number, main_window.py lines 370-383
handle_keyboard_number(w, value) ==
    IF w.active_cell = None \/ w.active_cell \in w.locked_map THEN w
    ELSE IF value \notin allowed_values(w, w.active_cell)
         THEN flash_invalid(w, w.active_cell)
         ELSE handle_board_edit(
                  take_snapshot(suspended_setText(w, w.active_cell, value)))

\* _handle_keyboard_clear, main_window.py lines 385-394
handle_keyboard_clear(w) ==
    IF w.active_cell = None \/ w.active_cell \in w.locked_map THEN w
    ELSE handle_board_edit(
             take_snapshot(suspended_setText(w, w.active_cell, 0)))

\* SudokuCell.keyPressEvent for a digit key (0 for Backspace, Delete, 0 and
\* Space) and _commit_value, board.py lines 137-155 and 176-188;
\* valueCommitted has no slot
keyPressEvent(w, p, digit) ==
    IF p \in w.locked_map THEN w
    ELSE IF digit = 0 THEN setText(w, p, 0)
    ELSE IF digit \notin allowed_values(w, p) THEN flash_invalid(w, p)
    ELSE setText(w, p, digit)

\* _start_new_session, main_window.py lines 334-339
start_new_session(w, b, diff) ==
    update_undo_redo_state([w EXCEPT !.session = start(w.session, diff, b)])

\* load_board once the file is read, main_window.py lines 486-494
load_board(w, b) ==
    Bind(set_board(w, b, {p \in Cells : b[p[1]][p[2]] # 0}), LAMBDA w1 :
    Bind(start_new_session(w1, b, "custom"), LAMBDA w2 :
        refresh_keyboard_options([w2 EXCEPT !.active_cell = None])))

\* SudokuMainWindow.solve_board, main_window.py lines 409-424
window_solve_board(w) ==
    Bind(solve_result(w.cells), LAMBDA attempt :
        IF ~attempt.ret THEN w
        ELSE Bind(set_board([w EXCEPT !.session = suspend_enter(w.session)],
                            attempt.board, Cells), LAMBDA w1 :
             Bind(take_snapshot([w1 EXCEPT !.session = suspend_exit(w1.session)]),
                  LAMBDA w2 :
                    refresh_keyboard_options(update_undo_redo_state(
                        [w2 EXCEPT !.session = mark_completed(w2.session)])))))

\* check_board, main_window.py lines 426-443, with mark_errors and
\* clear_errors, board.py lines 341-347
check_board(w) ==
    LET invalid_cells ==
            {p \in Cells : Value(w, p) # 0
                           /\ ~is_valid(w.cells, p[1], p[2], Value(w, p))}
    IN  [w EXCEPT !.error_cells = invalid_cells]

\* undo_move, main_window.py lines 496-507
undo_move(w) ==
    Bind(undo(w.session), LAMBDA res :
        IF res.ret = None THEN w
        ELSE Bind(suspended_setText([w EXCEPT !.session = res.session],
                                    <<res.ret.row, res.ret.col>>,
                                    res.ret.previous), LAMBDA w1 :
                refresh_keyboard_options(
                    update_undo_redo_state(take_snapshot(w1)))))

\* redo_move, main_window.py lines 509-522
redo_move(w) ==
    Bind(redo(w.session), LAMBDA res :
        IF res.ret = None THEN w
        ELSE Bind(suspended_setText([w EXCEPT !.session = res.session],
                                    <<res.ret.row, res.ret.col>>,
                                    res.ret.current), LAMBDA w1 :
             Bind(refresh_keyboard_options(
                    update_undo_redo_state(take_snapshot(w1))), LAMBDA w2 :
             Bind(check_completion(w2.session, w2.cells, w2.error_cells # {}),
                  LAMBDA chk :
                    IF chk.ret
                    THEN handle_completion([w2 EXCEPT !.session = chk.session])
                    ELSE [w2 EXCEPT !.session = chk.session]))))

(***************************************************************************)
(* A player at the window: each action is one event and the handler it     *)
(* runs to the end.  The puzzles come from files (load_board): the solved  *)
(* grid with cells of WindowPool blank.  The player clicks the cells of    *)
(* the pool, presses the keys 0 .. MaxKey, and stops typing once MaxMoves  *)
(* moves are recorded; the window is watched until the leaderboard has     *)
(* gained MaxEntries entries.                                              *)
(***************************************************************************)
WindowPoolSize == 2
MaxKey == 1
MaxEntries == 1

WindowPool == {PoolCells[i] : i \in 1 .. WindowPoolSize}
LoadBoards == {Blanked(Solved, B) : B \in SUBSET WindowPool}
Keys == 0 .. MaxKey

Watched == Len(win.entries) < MaxEntries

\* a cell takes the focus: focusInEvent, _on_focus (board.py lines 132-135,
\* 421-424) and the slot of cellFocused
FocusCell ==
    /\ \E p \in WindowPool :
        /\ win.focus # p
        /\ win' = handle_cell_focus([win EXCEPT !.focus = p], p)
    /\ call' = [op |-> "focus", ret |-> None]
    /\ UNCHANGED <<session, revealed>>
    /\ UNCHANGED gui_frame

\* a key is pressed in the cell that holds the focus
TypeDigit ==
    /\ Watched
    /\ win.focus # None
    /\ \E digit \in Keys :
        \E w \in {keyPressEvent(win, win.focus, digit)} :
            /\ w.session.next_move_id <= MaxMoves + 1
            /\ win' = w
            /\ call' = [op |-> "key", ret |-> None]
    /\ UNCHANGED <<session, revealed>>
    /\ UNCHANGED gui_frame

\* an enabled number button of the virtual keyboard is clicked
KeyboardNumber ==
    /\ Watched
    /\ \E value \in win.keyboard.numbers :
        /\ win' = handle_keyboard_number(win, value)
        /\ call' = [op |-> "keyboard_number", ret |-> None]
    /\ UNCHANGED <<session, revealed>>
    /\ UNCHANGED gui_frame

\* the clear button of the virtual keyboard is clicked
KeyboardClear ==
    /\ Watched
    /\ win.keyboard.clear
    /\ win' = handle_keyboard_clear(win)
    /\ call' = [op |-> "keyboard_clear", ret |-> None]
    /\ UNCHANGED <<session, revealed>>
    /\ UNCHANGED gui_frame

UndoMove ==
    /\ Watched
    /\ win.undo_button
    /\ win' = undo_move(win)
    /\ call' = [op |-> "undo_move", ret |-> None]
    /\ UNCHANGED <<session, revealed>>
    /\ UNCHANGED gui_frame

RedoMove ==
    /\ Watched
    /\ win.redo_button
    /\ win' = redo_move(win)
    /\ call' = [op |-> "redo_move", ret |-> None]
    /\ UNCHANGED <<session, revealed>>
    /\ UNCHANGED gui_frame

SolveBoard ==
    /\ Watched
    /\ win' = window_solve_board(win)
    /\ revealed' = (revealed \/ solve_result(win.cells).ret)
    /\ call' = [op |-> "solve_board", ret |-> None]
    /\ UNCHANGED session
    /\ UNCHANGED gui_frame

CheckBoard ==
    /\ win' = check_board(win)
    /\ call' = [op |-> "check_board", ret |-> None]
    /\ UNCHANGED <<session, revealed>>
    /\ UNCHANGED gui_frame

LoadBoard ==
    /\ Watched
    /\ \E b \in LoadBoards : win' = load_board(win, b)
    /\ revealed' = FALSE
    /\ call' = [op |-> "load_board", ret |-> None]
    /\ UNCHANGED session
    /\ UNCHANGED gui_frame

\* a remove_flash timer fires, board.py lines 353-356
RemoveFlash ==
    /\ \E p \in win.flashes :
        win' = [win EXCEPT !.flashes = @ \ {p}, !.error_cells = @ \ {p}]
    /\ call' = [op |-> "remove_flash", ret |-> None]
    /\ UNCHANGED <<session, revealed>>
    /\ UNCHANGED gui_frame

WindowNext ==
    \/ FocusCell
    \/ TypeDigit
    \/ KeyboardNumber
    \/ KeyboardClear
    \/ UndoMove
    \/ RedoMove
    \/ SolveBoard
    \/ CheckBoard
    \/ LoadBoard
    \/ RemoveFlash

\* the window once load_board has loaded its first file: the puzzle that the
\* constructor's new_game generated is replaced, the leaderboard has gained
\* no entry
InitWindow ==
    /\ \E b \in LoadBoards :
        win = [session |-> start(SessionTracker, "custom", b),
               cells |-> b,
               locked_map |-> {p \in Cells : b[p[1]][p[2]] # 0},
               error_cells |-> {},
               flashes |-> {},
               focus |-> None,
               active_cell |-> None,
               keyboard |-> update_options({}, FALSE, 0),
               undo_button |-> FALSE,
               redo_button |-> FALSE,
               entries |-> <<>>]
    /\ session = None
    /\ call = None
    /\ revealed = FALSE
    /\ SolveIdle
    /\ GenIdle
    /\ ValidIdle

SpecWindow == InitWindow /\ [][WindowNext]_vars

\* C29: while a revealed solution is on the board (from the solve_board
\* that put it there until the next load), no step runs the completion flow:
\* the leaderboard gains no entry, whether through the boardEdited callback
\* of set_board or through a later undo or redo.
C29_RevealIsNoCompletion ==
    [][revealed' => win'.entries = win.entries]_vars

\* C30: a click on a number button of the virtual keyboard that places the
\* digit in the unlocked active cell while tracking is active records exactly
\* one Move, for that cell and that digit, raises the moves statistic by one
\* and leaves undo available, as typing the digit into the cell does.
C30_KeyboardDigitIsTracked ==
    [][(/\ call'.op = "keyboard_number"
        /\ tracking_active(win.session)
        /\ win.active_cell # None
        /\ win.active_cell \notin win.locked_map
        /\ Value(win', win.active_cell) # Value(win, win.active_cell)) =>
            /\ Len(win'.session.move_history)
                 = Len(win.session.move_history) + 1
            /\ LET move == win'.session.move_history[
                               Len(win'.session.move_history)]
               IN  /\ <<move.row, move.col>> = win.active_cell
                   /\ move.current = Value(win', win.active_cell)
            /\ win'.session.stats.moves = win.session.stats.moves + 1
            /\ undo_available(win'.session)
            /\ win'.session = keyPressEvent(win, win.active_cell,
                                            Value(win', win.active_cell)).session]_vars
====
